---- MODULE Spec2Model ----
(***************************************************************************)
(* paperless-ngx-tag-exporter.py: export of the documents carrying one tag *)
(* from a paperless-ngx service into a directory export-<tag> (one .pdf    *)
(* and one .json per document, one .xls report).                           *)
(*                                                                         *)
(* The program is sequential.  Its position is pc; every action below is   *)
(* one step of main() or of the function it calls, with the answers of the *)
(* remote service drawn from the answers the service can give.             *)
(*                                                                         *)
(* Text.  A Python str the program only passes around, compares or         *)
(* concatenates is a TLA+ string.  A raw custom-field value is a record    *)
(* [t, n, s, c]: t is its Python type ("int", "str", "float"), n its       *)
(* number (a float in hundredths, so 22.5 is n = 2250), s its text when    *)
(* the program only concatenates it, c its characters when the program     *)
(* inspects them one by one (format_currency).                             *)
(*                                                                         *)
(* Taken as given: every body the service sends where the program calls    *)
(* .json() is JSON (an error answer of the detail endpoint is a JSON body   *)
(* without "custom_fields"), titles are usable as file names, stdout is a  *)
(* terminal (os.get_terminal_size) and the locale de_DE.UTF-8 exists.      *)
(***************************************************************************)
EXTENDS Integers, Sequences, FiniteSets, TLC

\* ------------------------------------------------------------------ bounds
\* Documents the remote service holds.
MaxDocs == 3
\* Requests the remote service answers with a failure, over a whole behaviour.
MaxFaults == 3
\* Runs of the program against the same export directory.
MaxRuns == 2
\* Characters of a raw text value, and the largest raw index (SpecExport).
MaxLen == 2

\* ----------------------------------------------------------------- helpers
Min(a, b) == IF a < b THEN a ELSE b

Range(s) == {s[k] : k \in DOMAIN s}

\* A Python value.
PyInt(n) == [t |-> "int", n |-> n, s |-> "", c |-> <<>>]
PyStr(s) == [t |-> "str", n |-> 0, s |-> s, c |-> <<>>]
PyChars(c) == [t |-> "str", n |-> 0, s |-> "", c |-> c]
PyFloat(n) == [t |-> "float", n |-> n, s |-> "", c |-> <<>>]

\* dict.get(k, default)
dict_get(d, k, default) == IF k \in DOMAIN d THEN d[k] ELSE default

\* f"{v}" of a raw value: an int by its digits, a str by its text.
RECURSIVE JoinChars(_)
JoinChars(c) == IF c = <<>> THEN "" ELSE Head(c) \o JoinChars(Tail(c))

fstr(v) == IF v.t = "int" THEN ToString(v.n)
           ELSE IF v.c # <<>> THEN JoinChars(v.c) ELSE v.s

\* ---------------------------------------------------------- remote service
\* What the service holds.  Every list endpoint answers in pages of pageSize
\* items with a continuation link ("next") on every page but the last.
TagName(k) == IF k = 1 THEN "Invoices"
              ELSE IF k = 2 THEN "Taxes" ELSE "Archive"

RemoteTags == [k \in 1..3 |-> [id |-> k, name |-> TagName(k)]]

RemoteFields ==
    << [id |-> 1, name |-> "Betrag", data_type |-> "monetary",
        select_options |-> <<>>],
       [id |-> 2, name |-> "Status", data_type |-> "select",
        select_options |-> <<"Draft", "Final">>],
       [id |-> 3, name |-> "Notiz", data_type |-> "string",
        select_options |-> <<>>] >>

\* An optional identifier: <<>> is None, <<k>> is k.
RemoteDoc(k) ==
    [id |-> k,
     title |-> IF k <= 2 THEN "Rechnung" ELSE "Vertrag" \o ToString(k),
     tags |-> IF k = 1 THEN <<1>>
              ELSE IF k = 2 THEN <<3, 1>>
              ELSE IF k = 3 THEN <<2>> ELSE <<1, 9>>,
     correspondent |-> IF k = 1 THEN <<1>> ELSE <<>>,
     document_type |-> IF k = 2 THEN <<1>> ELSE <<>>,
     storage_path |-> IF k = 3 THEN <<1>> ELSE <<>>,
     custom_fields |->
        IF k = 1 THEN << [field |-> 1,
                          value |-> PyChars(<<"E", "U", "R", "2", "2", "5", "0">>)] >>
        ELSE IF k = 2 THEN << [field |-> 2, value |-> PyInt(1)],
                              [field |-> 7, value |-> PyChars(<<"x">>)] >>
        ELSE IF k = 3 THEN << [field |-> 2, value |-> PyInt(5)] >>
        ELSE <<>>]

RemoteDocs == [k \in 1..MaxDocs |-> RemoteDoc(k)]

\* The name the lookup endpoint gives for an identifier.
RemoteName(endpoint, k) == endpoint \o "-" \o ToString(k)

NumPages(list, size) ==
    IF Len(list) = 0 THEN 1 ELSE (Len(list) + size - 1) \div size

\* The JSON body of page p of a list endpoint: "results" and "next".
RemotePage(list, size, p) ==
    [results |-> SubSeq(list, (p - 1) * size + 1, Min(p * size, Len(list))),
     next |-> p < NumPages(list, size)]

\* ------------------------------------------------------------------- state
VARIABLES
    pc,                 \* position of the program
    run,                \* which run against the export directory this is
    today,              \* datetime.now() as %Y%m%d
    pageSize,           \* the service's page size
    tag_from_ini,       \* config['paperless']['tags']
    faults,             \* failures the service has answered so far
    custom_fields_map,  \* main: custom_fields_map
    tag_dict,           \* main: tag_dict
    tag_id,             \* main: tag_id
    documents,          \* get_all_documents: documents
    page,               \* get_all_documents: page
    list_requests,      \* the list requests of this run, in order
    item_requests,      \* the per-document requests of this run, in order
    i,                  \* export_documents_by_tag: index of the loop
    document_data,      \* export_documents_by_tag: document_data
    fs,                 \* the directory export-<tag>
    fs0,                \* the directory as this run found it
    sheet,              \* the rows of the spreadsheet this run wrote
    diag,               \* the diagnostics this run printed
    crash               \* the exception that ended this run, "" if none

vars == <<pc, run, today, pageSize, tag_from_ini, faults, custom_fields_map,
          tag_dict, tag_id, documents, page, list_requests, item_requests, i,
          document_data, fs, fs0, sheet, diag, crash>>

remote == <<pageSize, tag_from_ini>>

NoDir == [exists |-> FALSE, entries |-> <<>>]

\* What is not of this program's making in the directory: a file, a directory.
ForeignNames == {"notes.txt", "old"}

foreign(n) == [kind |-> IF n = "old" THEN "dir" ELSE "file",
               run |-> 0, doc |-> 0, ext |-> ""]

\* The directory before the first run: absent, or holding anything.
Directories ==
    {NoDir} \cup {[exists |-> TRUE, entries |-> [n \in names |-> foreign(n)]] :
                     names \in SUBSET ForeignNames}

\* The state main() starts in.
Fresh ==
    /\ pc = "custom_fields"
    /\ custom_fields_map = <<>>
    /\ tag_dict = <<>>
    /\ tag_id = 0
    /\ documents = <<>>
    /\ page = 1
    /\ list_requests = <<>>
    /\ item_requests = <<>>
    /\ i = 1
    /\ document_data = <<>>
    /\ sheet = <<>>
    /\ diag = <<>>
    /\ crash = ""

Init ==
    /\ Fresh
    /\ run = 1
    /\ today = "20240101"
    /\ pageSize \in 1..MaxDocs
    /\ tag_from_ini \in {"invoices", "archive"}
    /\ faults = 0
    /\ fs \in Directories
    /\ fs0 = fs

\* A request the service may answer with a failure.
MayFail == faults < MaxFaults

\* ------------------------------------------ get_custom_field_definitions
\* One entry of custom_fields_map; the choices of a select field are keyed by
\* enumerate()'s index, from 0.
field_definition(field) ==
    [name |-> field.name,
     type |-> field.data_type,
     choices |-> IF field.data_type = "select"
                 THEN [k \in 0..(Len(field.select_options) - 1) |->
                          field.select_options[k + 1]]
                 ELSE <<>>]

build_custom_fields_map(results) ==
    [fid \in {results[k].id : k \in DOMAIN results} |->
        field_definition(
            results[CHOOSE k \in DOMAIN results :
                       /\ results[k].id = fid
                       /\ \A m \in DOMAIN results :
                              results[m].id = fid => m <= k])]

\* The pages of a list endpoint the loader reads.
pages_read(list, size) == RemotePage(list, size, 1).results

\* exit() forgotten: the program goes on with what follows.
exit_returns(following) == following

\* Where exit() leaves the program, whatever follows the call.
exit(following) == "aborted"

\* One GET of /custom_fields/.  A failure status, or a body that is no JSON,
\* ends the run with exit().
get_custom_field_definitions ==
    /\ pc = "custom_fields"
    /\ \E answer \in {"ok", "http_error", "bad_json"} :
        /\ answer # "ok" => MayFail
        /\ faults' = IF answer = "ok" THEN faults ELSE faults + 1
        /\ list_requests' =
              Append(list_requests,
                     [endpoint |-> "custom_fields", page |-> 1,
                      status |-> IF answer = "http_error" THEN 500 ELSE 200])
        /\ IF answer = "ok"
           THEN /\ custom_fields_map' =
                      build_custom_fields_map(pages_read(RemoteFields, pageSize))
                /\ pc' = "tags"
                /\ diag' = diag
           ELSE /\ custom_fields_map' = custom_fields_map
                /\ pc' = exit("tags")
                /\ diag' = Append(diag, "custom_fields: " \o answer)
    /\ UNCHANGED <<run, today, remote, tag_dict, tag_id, documents, page,
                   item_requests, i, document_data, fs, fs0, sheet, crash>>

\* ------------------------------------------------------- main: the tags
\* str.lower() on the names that occur.
lower(s) == IF s = "Invoices" THEN "invoices"
            ELSE IF s = "Taxes" THEN "taxes"
            ELSE IF s = "Archive" THEN "archive" ELSE s

build_tag_dict(results) ==
    [tid \in {results[k].id : k \in DOMAIN results} |->
        results[CHOOSE k \in DOMAIN results :
                   /\ results[k].id = tid
                   /\ \A m \in DOMAIN results :
                          results[m].id = tid => m <= k].name]

\* next((tid for tid, tname in tag_dict.items() if ...), None): the first
\* entry, in insertion order, whose name matches; 0 stands for None.
find_tag_id(results, d, wanted) ==
    LET hits == {k \in DOMAIN results :
                    lower(d[results[k].id]) = lower(wanted)}
    IN IF hits = {} THEN 0
       ELSE results[CHOOSE k \in hits : \A m \in hits : k <= m].id

\* One GET of /tags/, then the resolution of the configured tag.  A failure
\* status prints a diagnostic and leaves tag_dict unassigned: the next
\* statement reads it and raises UnboundLocalError.
main_tags ==
    /\ pc = "tags"
    /\ \E ok \in BOOLEAN :
        /\ ~ok => MayFail
        /\ faults' = IF ok THEN faults ELSE faults + 1
        /\ list_requests' =
              Append(list_requests,
                     [endpoint |-> "tags", page |-> 1,
                      status |-> IF ok THEN 200 ELSE 500])
        /\ IF ok
           THEN LET results == pages_read(RemoteTags, pageSize)
                    d == build_tag_dict(results)
                    tid == find_tag_id(results, d, tag_from_ini)
                IN /\ tag_dict' = d
                   /\ tag_id' = tid
                   /\ crash' = crash
                   /\ IF tid = 0
                      THEN /\ pc' = exit("documents")
                           /\ diag' = Append(diag, "tag not found")
                      ELSE /\ pc' = "documents"
                           /\ diag' = diag
           ELSE /\ tag_dict' = tag_dict
                /\ tag_id' = tag_id
                /\ diag' = Append(diag, "tags: http_error")
                /\ crash' = "UnboundLocalError"
                /\ pc' = "crashed"
    /\ UNCHANGED <<run, today, remote, custom_fields_map, documents, page,
                   item_requests, i, document_data, fs, fs0, sheet>>

\* ------------------------------------------------------ get_all_documents
\* The break after a failed page forgotten.
fetch_continues_unchecked(ok, data) == data.next

\* Whether the loop goes on to the next page after this answer.
fetch_continues(ok, data) == ok /\ data.next

\* One iteration of the while loop: one GET of page `page`.
get_all_documents ==
    /\ pc = "documents"
    /\ \E ok \in BOOLEAN :
        /\ ~ok => MayFail
        /\ faults' = IF ok THEN faults ELSE faults + 1
        /\ list_requests' =
              Append(list_requests,
                     [endpoint |-> "documents", page |-> page,
                      status |-> IF ok THEN 200 ELSE 500])
        /\ LET data == RemotePage(RemoteDocs, pageSize, page)
           IN /\ documents' = IF ok THEN documents \o data.results
                              ELSE documents
              /\ diag' = IF ok THEN diag
                         ELSE Append(diag, "documents: http_error")
              /\ IF fetch_continues(ok, data)
                 THEN /\ page' = page + 1
                      /\ pc' = pc
                 ELSE /\ page' = page
                      /\ pc' = "export"
    /\ UNCHANGED <<run, today, remote, custom_fields_map, tag_dict, tag_id,
                   item_requests, i, document_data, fs, fs0, sheet, crash>>

\* -------------------------------------------------------- get_name_from_id
\* The answers of a lookup endpoint for an optional identifier.  For None the
\* URL is <endpoint>/None/, which names no entity: the service answers 404.
lookup_answers(endpoint, id) ==
    IF id = <<>> THEN {[status |-> 404, name |-> ""]}
    ELSE {[status |-> 200, name |-> RemoteName(endpoint, id[1])],
          [status |-> 404, name |-> ""]}

\* The status check forgotten.
get_name_from_id_unchecked(response) == response.name

get_name_from_id(response) ==
    IF response.status = 200 THEN response.name ELSE "Unbekannt"

\* --------------------------------------------------------- format_currency
IsDigit(ch) == ch \in {"0", "1", "2", "3", "4", "5", "6", "7", "8", "9"}

DigitValue(ch) ==
    CASE ch = "0" -> 0 [] ch = "1" -> 1 [] ch = "2" -> 2 [] ch = "3" -> 3
      [] ch = "4" -> 4 [] ch = "5" -> 5 [] ch = "6" -> 6 [] ch = "7" -> 7
      [] ch = "8" -> 8 [] ch = "9" -> 9

\* int() of a string of digits.
RECURSIVE digits_to_int(_)
digits_to_int(c) ==
    IF c = <<>> THEN 0
    ELSE digits_to_int(SubSeq(c, 1, Len(c) - 1)) * 10 + DigitValue(c[Len(c)])

\* The digits of a natural number, in groups of three separated by ".".
RECURSIVE grouped(_)
grouped(n) ==
    IF n < 1000 THEN ToString(n)
    ELSE LET low == n % 1000
         IN grouped(n \div 1000) \o "."
            \o (IF low < 10 THEN "00" ELSE IF low < 100 THEN "0" ELSE "")
            \o ToString(low)

\* locale.currency(x, grouping=True) under de_DE.UTF-8, x given in hundredths:
\* 2250 is "22,50 EUR" (the symbol written in ASCII here).
locale_currency(n) ==
    grouped(n \div 100) \o ","
    \o (IF n % 100 < 10 THEN "0" ELSE "") \o ToString(n % 100) \o " EUR"

\* filter(str.isdigit, value) iterates over value: a value that is no str
\* raises TypeError, which format_currency does not catch.
currency_raises(value) == value.t # "str"

\* float() of a non-empty string of ASCII digits cannot raise ValueError.
\* The locale rendering of line 314 is overwritten by the number on line 315.
format_currency(value) ==
    LET clean_value == SelectSeq(value.c, IsDigit)
    IN IF clean_value = <<>> THEN PyStr("0,00")
       ELSE LET value_float == digits_to_int(clean_value)
                formatted_value == locale_currency(value_float)
            IN PyFloat(value_float)

\* ------------------------------------------- export_documents_by_tag: rows
field_name(custom_field, map) ==
    IF custom_field.field \in DOMAIN map
    THEN map[custom_field.field].name
    ELSE "Feld " \o ToString(custom_field.field)

field_type(custom_field, map) ==
    IF custom_field.field \in DOMAIN map
    THEN map[custom_field.field].type
    ELSE "string"

\* .get() without its default: None, which the sheet shows as an empty cell.
select_cell_no_default(choices, field_value) ==
    IF field_value.t = "int" /\ field_value.n \in DOMAIN choices
    THEN PyStr(choices[field_value.n])
    ELSE PyStr("")

\* field_info["choices"].get(field_value, f"Wert {field_value}"): the keys
\* are ints, so a str never hits.
select_cell(choices, field_value) ==
    IF field_value.t = "int" /\ field_value.n \in DOMAIN choices
    THEN PyStr(choices[field_value.n])
    ELSE PyStr("Wert " \o fstr(field_value))

field_cell(custom_field, map) ==
    LET type == field_type(custom_field, map)
    IN IF type = "monetary" THEN format_currency(custom_field.value)
       ELSE IF type = "select"
            THEN select_cell(map[custom_field.field].choices,
                             custom_field.value)
            ELSE custom_field.value

field_raises(custom_field, map) ==
    /\ field_type(custom_field, map) = "monetary"
    /\ currency_raises(custom_field.value)

\* The dict custom_fields after the loop over the list: a later value of the
\* same name replaces an earlier one.
RECURSIVE resolve_custom_fields(_, _)
resolve_custom_fields(list, map) ==
    IF list = <<>> THEN <<>>
    ELSE LET last == list[Len(list)]
         IN (field_name(last, map) :> field_cell(last, map))
            @@ resolve_custom_fields(SubSeq(list, 1, Len(list) - 1), map)

\* The sentinel of get_name_from_id as the default.
resolve_tag_unknown(d, tid) == dict_get(d, tid, "Unbekannt")

resolve_tag(d, tid) == dict_get(d, tid, "Tag " \o ToString(tid))

RECURSIVE join(_, _)
join(sep, names) ==
    IF names = <<>> THEN ""
    ELSE IF Len(names) = 1 THEN names[1]
    ELSE names[1] \o sep \o join(sep, Tail(names))

tags_column(doc, d) ==
    join(", ", [k \in DOMAIN doc.tags |-> resolve_tag(d, doc.tags[k])])

\* The filter forgotten.
matches_all(doc, tid) == TRUE

\* tag_id not in doc.get("tags", []) sends the loop to the next document.
matches(doc, tid) == tid \in Range(doc.tags)

\* ---------------------------------------- export_documents_by_tag: files
pdf_path(doc_title) == doc_title \o ".pdf"
json_path(doc_title) == doc_title \o ".json"
report_path(tag, date) == "export-" \o tag \o "-" \o date \o ".xls"

\* An entry of the directory: what it is, the run that wrote it (0: not this
\* program), the document it belongs to (0: none) and its extension.
written(k, ext) == [kind |-> "file", run |-> run, doc |-> k, ext |-> ext]

write_file(entries, path, k, ext) == (path :> written(k, ext)) @@ entries

\* export_pdf: the file is written only on status 200.
export_pdf(entries, doc, ok) ==
    IF ok THEN write_file(entries, pdf_path(doc.title), doc.id, "pdf")
    ELSE entries

export_json(entries, doc) ==
    write_file(entries, json_path(doc.title), doc.id, "json")

IsDir(entries, n) == entries[n].kind = "dir"

\* The names left once the loop of os.remove() over os.listdir() is through.
purge_survivors(entries) == {n \in DOMAIN entries : FALSE}

\* The head of export_documents_by_tag: os.remove() of every entry of an
\* existing directory, os.makedirs() otherwise.  os.remove() of a directory
\* raises; the entries os.listdir() gave before it are gone by then.
export_purge ==
    /\ pc = "export"
    /\ LET names == DOMAIN fs.entries
           dirs == {n \in names : IsDir(fs.entries, n)}
       IN IF fs.exists /\ dirs # {}
          THEN \E removed \in SUBSET (names \ dirs) :
                  /\ fs' = [fs EXCEPT !.entries =
                               [n \in names \ removed |-> fs.entries[n]]]
                  /\ pc' = "crashed"
                  /\ crash' = "IsADirectoryError"
          ELSE /\ fs' = [exists |-> TRUE,
                       entries |-> [n \in purge_survivors(fs.entries) |->
                                       fs.entries[n]]]
               /\ pc' = "loop"
               /\ crash' = crash
    /\ UNCHANGED <<run, today, remote, faults, custom_fields_map, tag_dict,
                   tag_id, documents, page, list_requests, item_requests, i,
                   document_data, fs0, sheet, diag>>

Failed(ok) == IF ok THEN 0 ELSE 1

\* The per-document requests of one iteration, in the order they are sent:
\* the detail, then (building the row) the three lookups, then the download.
requests_of(doc, detail_ok, c, t, s, pdf_ok) ==
    << [doc |-> doc.id, endpoint |-> "documents",
        status |-> IF detail_ok THEN 200 ELSE 404],
       [doc |-> doc.id, endpoint |-> "correspondents", status |-> c.status],
       [doc |-> doc.id, endpoint |-> "document_types", status |-> t.status],
       [doc |-> doc.id, endpoint |-> "storage_paths", status |-> s.status],
       [doc |-> doc.id, endpoint |-> "download",
        status |-> IF pdf_ok THEN 200 ELSE 404] >>

\* One iteration of the loop over documents.  The detail request's status is
\* not looked at: an error body is JSON without "custom_fields".
export_document ==
    /\ pc = "loop"
    /\ i <= Len(documents)
    /\ LET doc == documents[i]
       IN IF ~matches(doc, tag_id)
          THEN /\ i' = i + 1
               /\ UNCHANGED <<pc, faults, item_requests, document_data, fs,
                              diag, crash>>
          ELSE \E detail_ok, pdf_ok \in BOOLEAN :
               \E c \in lookup_answers("correspondents", doc.correspondent),
                  t \in lookup_answers("document_types", doc.document_type),
                  s \in lookup_answers("storage_paths", doc.storage_path) :
               LET detailed_doc ==
                       [has_custom_fields |-> detail_ok,
                        custom_fields |-> IF detail_ok THEN doc.custom_fields
                                          ELSE <<>>]
                   raises ==
                       \E k \in DOMAIN detailed_doc.custom_fields :
                           field_raises(detailed_doc.custom_fields[k],
                                        custom_fields_map)
                   injected ==
                       Failed(detail_ok) + Failed(pdf_ok)
                       + (IF doc.correspondent # <<>> /\ c.status # 200
                          THEN 1 ELSE 0)
                       + (IF doc.document_type # <<>> /\ t.status # 200
                          THEN 1 ELSE 0)
                       + (IF doc.storage_path # <<>> /\ s.status # 200
                          THEN 1 ELSE 0)
                   \* "Datum" (parse_date) is left out: nothing here reads it.
                   row ==
                       [ID |-> doc.id,
                        Titel |-> doc.title,
                        Korrespondent |-> get_name_from_id(c),
                        Dokumenttyp |-> get_name_from_id(t),
                        Speicherpfad |-> get_name_from_id(s),
                        Tags |-> tags_column(doc, tag_dict),
                        custom |-> resolve_custom_fields(
                                       detailed_doc.custom_fields,
                                       custom_fields_map)]
               IN IF raises
                  THEN /\ pc' = "crashed"
                       /\ crash' = "TypeError"
                       /\ item_requests' =
                             Append(item_requests,
                                    requests_of(doc, detail_ok, c, t, s,
                                                pdf_ok)[1])
                       /\ UNCHANGED <<i, faults, document_data, fs, diag>>
                  ELSE /\ faults + injected <= MaxFaults
                       /\ faults' = faults + injected
                       /\ i' = i + 1
                       /\ item_requests' =
                             item_requests
                             \o requests_of(doc, detail_ok, c, t, s, pdf_ok)
                       /\ document_data' = Append(document_data, row)
                       /\ fs' = [fs EXCEPT !.entries =
                                    export_json(export_pdf(@, doc, pdf_ok),
                                                doc)]
                       /\ diag' = IF pdf_ok THEN diag
                                  ELSE Append(diag, "pdf: http_error")
                       /\ UNCHANGED <<pc, crash>>
    /\ UNCHANGED <<run, today, remote, custom_fields_map, tag_dict, tag_id,
                   documents, page, list_requests, fs0, sheet>>

\* After the loop: the spreadsheet, one row per entry of document_data.
export_render ==
    /\ pc = "loop"
    /\ i > Len(documents)
    /\ sheet' = document_data
    /\ fs' = [fs EXCEPT !.entries =
                 write_file(@, report_path(tag_from_ini, today), 0, "xls")]
    /\ pc' = "done"
    /\ UNCHANGED <<run, today, remote, faults, custom_fields_map, tag_dict,
                   tag_id, documents, page, list_requests, item_requests, i,
                   document_data, fs0, diag, crash>>

\* ------------------------------------------------------------ the next run
Ended == pc \in {"done", "aborted", "crashed"}

\* The program is started again, possibly on a later day, after anything else
\* has left entries in the directory.
start_run ==
    /\ Ended
    /\ run < MaxRuns
    /\ run' = run + 1
    /\ today' \in {today, "20240102"}
    /\ \E extra \in SUBSET ForeignNames :
          fs' = IF extra = {} THEN fs
                ELSE [exists |-> TRUE,
                      entries |-> [n \in extra |-> foreign(n)] @@ fs.entries]
    /\ fs0' = fs'
    /\ pc' = "custom_fields"
    /\ custom_fields_map' = <<>>
    /\ tag_dict' = <<>>
    /\ tag_id' = 0
    /\ documents' = <<>>
    /\ page' = 1
    /\ list_requests' = <<>>
    /\ item_requests' = <<>>
    /\ i' = 1
    /\ document_data' = <<>>
    /\ sheet' = <<>>
    /\ diag' = <<>>
    /\ crash' = ""
    /\ UNCHANGED <<remote, faults>>

Next ==
    \/ get_custom_field_definitions
    \/ main_tags
    \/ get_all_documents
    \/ export_purge
    \/ export_document
    \/ export_render
    \/ start_run

Spec == Init /\ [][Next]_vars

\* The program's own steps go on until it ends; nobody has to start it again.
Step ==
    \/ get_custom_field_definitions
    \/ main_tags
    \/ get_all_documents
    \/ export_purge
    \/ export_document
    \/ export_render

FairSpec == Spec /\ WF_vars(Step)

\* ------------------------------------------------- export_documents_by_tag
\* export_documents_by_tag called on its own, on arguments drawn from bounded
\* sets: one document, with any tags and any custom-field value, against any
\* tag mapping and any part of the custom-field schema.  The service answers
\* every request of these behaviours (the failures are Spec's).
Alphabet == {"E", ".", "2", "5"}

RECURSIVE StringsUpTo(_)
StringsUpTo(n) ==
    IF n = 0 THEN {<<>>}
    ELSE LET shorter == StringsUpTo(n - 1)
         IN shorter \cup {Append(c, ch) : c \in shorter, ch \in Alphabet}

RawValues ==
    {PyInt(n) : n \in 0..MaxLen}
    \cup {PyChars(c) : c \in StringsUpTo(MaxLen)}
    \cup {PyChars(<<"E", "U", "R", "2", "2", "5", "0">>)}

ArgCustomFields ==
    {<<>>} \cup {<<[field |-> f, value |-> v]>> :
                    f \in {1, 2, 3, 7}, v \in RawValues}

ArgTags == {<<a>> : a \in {1, 2, 9}}
           \cup {<<a, b>> : a \in {1, 2, 9}, b \in {1, 2, 9}}

ArgTagDicts ==
    UNION {[ids -> {"Invoices", "Taxes"}] : ids \in {{1}, {1, 2}}}

FullSchema == build_custom_fields_map(RemoteFields)

ArgSchemas ==
    {[fid \in ids |-> FullSchema[fid]] : ids \in SUBSET (DOMAIN FullSchema)}

ArgDoc(tags, custom_fields) ==
    [id |-> 1, title |-> "Rechnung", tags |-> tags,
     correspondent |-> <<>>, document_type |-> <<>>, storage_path |-> <<>>,
     custom_fields |-> custom_fields]

InitExport ==
    /\ pc = "export"
    /\ run = 1
    /\ today = "20240101"
    /\ pageSize = 1
    /\ tag_from_ini = "invoices"
    /\ faults = MaxFaults
    /\ tag_id = 1
    /\ \/ /\ tag_dict \in ArgTagDicts
          /\ custom_fields_map = FullSchema
          /\ \E tags \in ArgTags : documents = <<ArgDoc(tags, <<>>)>>
       \/ /\ tag_dict = [tid \in {1} |-> "Invoices"]
          /\ custom_fields_map \in ArgSchemas
          /\ \E cf \in ArgCustomFields : documents = <<ArgDoc(<<1>>, cf)>>
    /\ page = 1
    /\ list_requests = <<>>
    /\ item_requests = <<>>
    /\ i = 1
    /\ document_data = <<>>
    /\ fs = NoDir
    /\ fs0 = NoDir
    /\ sheet = <<>>
    /\ diag = <<>>
    /\ crash = ""

NextExport ==
    \/ export_purge
    \/ export_document
    \/ export_render

SpecExport == InitExport /\ [][NextExport]_vars

\* ================================================================= claims
HasDir(entries) == \E n \in DOMAIN entries : entries[n].kind = "dir"

AllFieldIds == {RemoteFields[k].id : k \in DOMAIN RemoteFields}
AllTagIds == {RemoteTags[k].id : k \in DOMAIN RemoteTags}

\* C1: once the reference data is loaded, the custom-field mapping and the
\* tag mapping hold an entry for every field definition and every tag of all
\* the pages the service splits them over, not only of the first page.
C1_AllPagesLoaded ==
    /\ pc \in {"tags", "documents", "export", "loop", "done"}
          => DOMAIN custom_fields_map = AllFieldIds
    /\ pc \in {"documents", "export", "loop", "done"}
          => DOMAIN tag_dict = AllTagIds

\* The requests for pages of the document list, in the order sent.
IsDocumentsRequest(r) == r.endpoint = "documents"
DocRequests == SelectSeq(list_requests, IsDocumentsRequest)

\* What the service holds on page p, and whether a page follows it.
ServedPage(p) ==
    [k \in 1..(Min(p * pageSize, MaxDocs) - (p - 1) * pageSize) |->
        RemoteDoc((p - 1) * pageSize + k)]
HasNext(p) == p * pageSize < MaxDocs

RECURSIVE Fetched(_)
Fetched(reqs) ==
    IF reqs = <<>> THEN <<>>
    ELSE LET last == reqs[Len(reqs)]
         IN Fetched(SubSeq(reqs, 1, Len(reqs) - 1))
            \o (IF last.status = 200 THEN ServedPage(last.page) ELSE <<>>)

\* C2: get_all_documents requests pages 1, 2, 3, ... in order, page N+1 only
\* after page N succeeded with a continuation link; it stops at the first
\* page that fails or reports no further page; documents is the
\* concatenation, in page order, of the results of the pages that succeeded.
C2_PagesInOrder ==
    LET reqs == DocRequests
        n == Len(reqs)
    IN /\ \A k \in 1..n : reqs[k].page = k
       /\ \A k \in 1..(n - 1) : reqs[k].status = 200 /\ HasNext(k)
       /\ pc = "documents"
             => /\ page = n + 1
                /\ n > 0 => reqs[n].status = 200 /\ HasNext(n)
       /\ (pc # "documents" /\ n > 0)
             => reqs[n].status # 200 \/ ~HasNext(n)
       /\ documents = Fetched(reqs)

\* C2's case: of a collection of three pages, page 2 failed; page 3 was
\* never requested and the result is page 1's.
C2_Witness ==
    /\ pageSize = 1 /\ MaxDocs >= 3
    /\ pc = "export"
    /\ Len(DocRequests) = 2
    /\ DocRequests[2].status # 200
    /\ documents = <<RemoteDoc(1)>>

\* C3: after a non-success response to the tag-list or the custom-field
\* request the run is over, with a diagnostic: that request is the run's
\* last list request (no retry, no document-list request), nothing was
\* requested for a document, the directory is as the run found it, and no
\* row or report exists.
C3_LoaderFailureIsFatal ==
    \A k \in DOMAIN list_requests :
        (/\ list_requests[k].endpoint \in {"custom_fields", "tags"}
         /\ list_requests[k].status # 200)
        => /\ k = Len(list_requests)
           /\ pc \in {"aborted", "crashed"}
           /\ diag # <<>>
           /\ item_requests = <<>>
           /\ fs = fs0
           /\ document_data = <<>>
           /\ sheet = <<>>

\* C3's case: the tag list failed for a run that found a directory with
\* entries in it, which are all still there.
C3_Witness ==
    /\ list_requests # <<>>
    /\ list_requests[Len(list_requests)].endpoint = "tags"
    /\ list_requests[Len(list_requests)].status # 200
    /\ pc = "crashed"
    /\ fs.exists
    /\ DOMAIN fs.entries = ForeignNames

\* The fetched documents that carry the target tag, in fetch order.
IsMatch(doc) == \E k \in DOMAIN doc.tags : doc.tags[k] = tag_id
MatchedDocs == SelectSeq(documents, IsMatch)

\* The entries of the directory this run wrote, by extension.
Artifacts(ext) ==
    {n \in DOMAIN fs.entries :
        fs.entries[n].ext = ext /\ fs.entries[n].run = run}

DownloadsSucceeded ==
    \A k \in DOMAIN item_requests :
        item_requests[k].endpoint = "download"
            => item_requests[k].status = 200

\* C4: a finished run whose target tag matched N fetched documents leaves N
\* binary artifacts, N metadata artifacts and one spreadsheet of N rows,
\* whatever the titles (stated here for the runs none of whose downloads
\* failed, which the claim covers).
C4_OneArtifactPerDocument ==
    (pc = "done" /\ DownloadsSucceeded)
    => /\ Cardinality(Artifacts("pdf")) = Len(MatchedDocs)
       /\ Cardinality(Artifacts("json")) = Len(MatchedDocs)
       /\ Cardinality(Artifacts("xls")) = 1
       /\ Len(sheet) = Len(MatchedDocs)

\* The run has entered export_documents_by_tag and is past its purge.
PurgeDone == pc \in {"loop", "done"} \/ crash = "TypeError"
PurgeRaised == crash = "IsADirectoryError"

WrittenByThisRun == \A n \in DOMAIN fs.entries : fs.entries[n].run = run

\* C5: when a second run's export finds artifacts of the first
\* run in the directory, beside whatever else was left there, its purge
\* removes every pre-existing entry, so every entry there is of the second
\* run's writing.
C5_OnlySecondRunFiles ==
    (/\ run >= 2
     /\ \E n \in DOMAIN fs0.entries : fs0.entries[n].run = run - 1
     /\ PurgeDone \/ PurgeRaised)
    => WrittenByThisRun

RowIds(rows) == [k \in 1..Len(rows) |-> rows[k].ID]
DocIds(docs) == [k \in 1..Len(docs) |-> docs[k].id]

\* C6: document_data holds one row per fetched document that carries the
\* target tag and was reached by the loop, in fetch order, and none for any
\* other; the sheet is written only once the loop is through every fetched
\* document, and holds those rows.
C6_RowsInFetchOrder ==
    /\ pc \in {"loop", "done"}
          => RowIds(document_data)
                = DocIds(SelectSeq(SubSeq(documents, 1, i - 1), IsMatch))
    /\ pc = "done" => i = Len(documents) + 1 /\ sheet = document_data
    /\ pc # "done" => sheet = <<>>

\* C6's case: a finished run with two rows or more and a fetched document
\* that got none.
C6_Witness ==
    /\ pc = "done"
    /\ Len(sheet) >= 2
    /\ Len(documents) > Len(sheet)

LookupCell(row, endpoint) ==
    IF endpoint = "correspondents" THEN row.Korrespondent
    ELSE IF endpoint = "document_types" THEN row.Dokumenttyp
    ELSE row.Speicherpfad

RowOf(id) == CHOOSE k \in DOMAIN document_data : document_data[k].ID = id
HasRow(id) == \E k \in DOMAIN document_data : document_data[k].ID = id

C7_Safety ==
    /\ tag_id # 0
          => /\ pc # "aborted"
             /\ pc = "crashed" => crash = "IsADirectoryError"
    /\ \A k \in DOMAIN item_requests :
          LET r == item_requests[k]
          IN /\ (/\ r.endpoint \in {"correspondents", "document_types",
                                    "storage_paths"}
                 /\ r.status # 200)
                => /\ HasRow(r.doc)
                   /\ LookupCell(document_data[RowOf(r.doc)], r.endpoint)
                         = "Unbekannt"
             /\ (r.endpoint = "download" /\ r.status # 200)
                => /\ HasRow(r.doc)
                   /\ \E n \in Artifacts("json") :
                         n = document_data[RowOf(r.doc)].Titel \o ".json"

\* C7: once the target tag is resolved, a failed page of the document list,
\* a failed or absent lookup and a failed download do not end the run: it
\* goes on to write the sheet (unless the purge raised, which none of these
\* failures causes); the cell of a failed or absent lookup is "Unbekannt",
\* and a document whose download failed has its row and its .json.
C7_FailuresAreNotFatal ==
    /\ []C7_Safety
    /\ (pc = "documents") ~> (pc = "done" \/ crash = "IsADirectoryError")

\* C7's case: a finished run in which a page of the document list, the
\* correspondent lookup of document 1 and a download all failed.
C7_Witness ==
    /\ pc = "done"
    /\ \E k \in DOMAIN DocRequests : DocRequests[k].status # 200
    /\ \E k \in DOMAIN item_requests :
          /\ item_requests[k].endpoint = "correspondents"
          /\ item_requests[k].doc = 1
          /\ item_requests[k].status # 200
    /\ ~DownloadsSucceeded
    /\ Len(sheet) >= 1
    /\ sheet[1].Korrespondent = "Unbekannt"

\* The document a row was built from.
DocOfRow(row) == CHOOSE d \in Range(documents) : d.id = row.ID

\* The text of a "Tags" cell for one or two tags, from the name of each.
TagsText(tags, Name(_)) ==
    IF tags = <<>> THEN ""
    ELSE IF Len(tags) = 1 THEN Name(tags[1])
    ELSE Name(tags[1]) \o ", " \o Name(tags[2])

NameOrSentinel(t) == IF t \in DOMAIN tag_dict THEN tag_dict[t] ELSE "Unbekannt"
NameOrPlaceholder(t) ==
    IF t \in DOMAIN tag_dict THEN tag_dict[t] ELSE "Tag " \o ToString(t)

\* C8 as claimed: in the "Tags" cell a tag identifier of the mapping shows as
\* the mapping's name for it, and one that is not in the mapping as the
\* sentinel "Unbekannt" of the reference-name lookup.
C8_Original ==
    \A k \in DOMAIN document_data :
        document_data[k].Tags
            = TagsText(DocOfRow(document_data[k]).tags, NameOrSentinel)

\* C8: in the "Tags" cell a tag identifier of the mapping shows as the
\* mapping's name for it, and one that is not in the mapping as the
\* placeholder "Tag <id>", which is not the lookup's sentinel.
C8_TagPlaceholder ==
    \A k \in DOMAIN document_data :
        document_data[k].Tags
            = TagsText(DocOfRow(document_data[k]).tags, NameOrPlaceholder)

\* C8's case: the row of a document tagged 9, which the mapping lacks, and
\* 1, which the mapping calls "Taxes".
C8_Witness ==
    /\ tag_dict[1] = "Taxes"
    /\ \E k \in DOMAIN document_data :
          /\ DocOfRow(document_data[k]).tags = <<9, 1>>
          /\ document_data[k].Tags = "Tag 9, Taxes"

RawText(v) == IF v.t = "int" THEN ToString(v.n) ELSE JoinChars(v.c)

Defined(fid) == fid \in DOMAIN custom_fields_map

\* C9: a custom-field value without a definition is reported under the name
\* "Feld <id>" with its raw value; a select value shows the label of its
\* index in the choice table (index 1 of {0: Draft, 1: Final} is Final) and,
\* when the table lacks it, the placeholder "Wert <raw value>"; neither
\* raises: the row of the document is built, and the only exception of the
\* loop is format_currency's on a monetary value that is no str.
C9_Placeholders ==
    /\ \A k \in DOMAIN document_data :
          LET row == document_data[k]
              doc == DocOfRow(row)
          IN \A j \in DOMAIN doc.custom_fields :
                LET fid == doc.custom_fields[j].field
                    v == doc.custom_fields[j].value
                IN /\ ~Defined(fid)
                      => /\ "Feld " \o ToString(fid) \in DOMAIN row.custom
                         /\ row.custom["Feld " \o ToString(fid)] = v
                   /\ (Defined(fid) /\ custom_fields_map[fid].type = "select")
                      => LET def == custom_fields_map[fid]
                         IN /\ def.name \in DOMAIN row.custom
                            /\ row.custom[def.name]
                                 = IF v.t = "int" /\ v.n \in DOMAIN def.choices
                                   THEN PyStr(def.choices[v.n])
                                   ELSE PyStr("Wert " \o RawText(v))
                   /\ (Defined(fid) /\ fid = 2 /\ v = PyInt(1))
                      => row.custom["Status"] = PyStr("Final")
    /\ pc = "crashed"
          => /\ crash = "TypeError"
             /\ \E j \in DOMAIN documents[i].custom_fields :
                   LET fid == documents[i].custom_fields[j].field
                   IN /\ Defined(fid)
                      /\ custom_fields_map[fid].type = "monetary"
                      /\ documents[i].custom_fields[j].value.t # "str"
    /\ pc = "done" => Len(document_data) = Len(MatchedDocs)

\* C9's case: index 2, which the choice table of "Status" lacks.
C9_Witness ==
    /\ Defined(2)
    /\ \E k \in DOMAIN document_data :
          /\ DocOfRow(document_data[k]).custom_fields
                = <<[field |-> 2, value |-> PyInt(2)]>>
          /\ document_data[k].custom["Status"] = PyStr("Wert 2")

\* C10: the cell of a monetary value that is a str: without a digit the zero
\* default "0,00"; otherwise its digits, read as an integer of hundredths,
\* rendered by the locale ("EUR2250" is 22.50, rendered "22,50 EUR").
C10_LocaleRendering ==
    \A k \in DOMAIN document_data :
        LET row == document_data[k]
            doc == DocOfRow(row)
        IN \A j \in DOMAIN doc.custom_fields :
              LET fid == doc.custom_fields[j].field
                  v == doc.custom_fields[j].value
                  digits == SelectSeq(v.c, IsDigit)
              IN (/\ Defined(fid)
                  /\ custom_fields_map[fid].type = "monetary"
                  /\ v.t = "str")
                 => row.custom[custom_fields_map[fid].name]
                       = IF digits = <<>> THEN PyStr("0,00")
                         ELSE PyStr(locale_currency(digits_to_int(digits)))

====
